---- MODULE Spec2Model ----
(***************************************************************************)
(* A state-machine model of the replicon_test demos (src/src/main.rs and   *)
(* src/src/test_2.rs): one process, started as a server or as a client,    *)
(* running its Startup schedule once and then Update frames.               *)
(*                                                                         *)
(* Engine semantics the systems rely on, as modelled here:                 *)
(*  - the systems of one schedule run in an order that is not fixed: each  *)
(*    system is one action, enabled while it has not yet run this pass.    *)
(*    Systems whose parameters share no data commute, so every order is    *)
(*    equivalent to one that runs the sets of systems that do share data   *)
(*    (ConflictGroup) one set after the other; within a set every order    *)
(*    is explored;                                                         *)
(*  - Commands are deferred: every system pushes to its own buffer, the    *)
(*    buffers are applied when the schedule ends (ApplyDeferred), while    *)
(*    `commands.spawn(..).id()` reserves the entity id at once;            *)
(*  - Added<Replication> matches an entity in the first run of the system  *)
(*    after the component was added (`added[sys]`);                        *)
(*  - Res::is_changed is true when the resource was added or mutably       *)
(*    dereferenced since the system last ran;                              *)
(*  - client events written on a process with authority come back as       *)
(*    FromClient events tagged SERVER_ID; events of remote clients,        *)
(*    connection events and replicated entities arrive before Update.      *)
(* Vec2 components are fixed-point thousandths (1.0 is 1000).              *)
(***************************************************************************)
EXTENDS Integers, Sequences, FiniteSets, TLC

VARIABLES
    variant,        \* "main" (main.rs) or "test_2" (test_2.rs)
    cli,            \* the parsed Cli resource: "Server" or "Client"
    phase,          \* "startup", "update" or "aborted"
    ran,            \* systems that already ran in the current schedule pass
    ever_ran,       \* history: every Update system that has run at least once
    frame,          \* number of Update passes that have started
    resources,      \* names of the role resources present in the world
    local_player,   \* LocalPlayerId, NoId while the resource is absent
    next_entity,    \* the entity allocator: next id to reserve
    entities,       \* the world: entity id -> components
    commands,       \* system -> its deferred command buffer
    added,          \* system -> entities whose Replication it has not seen yet
    keys,           \* Input<KeyCode> of this frame
    dt,             \* Time::delta_seconds of this frame (whole seconds)
    player_input,   \* Events<PlayerInput> written this frame
    other_input,    \* Events<OtherPlayerInput> written this frame (test_2)
    from_client,    \* Events<FromClient<PlayerInput>> readable this frame
    from_client_2,  \* Events<FromClient<OtherPlayerInput>> readable this frame
    server_events,  \* Events<ServerEvent> readable this frame
    inputs_count,   \* InputsCount.0
    count_changed,  \* InputsCount changed since update_input_count_text ran
    timmy,          \* Timmy.time_left (whole seconds)
    mapping,        \* ClientEntityMap: the entries inserted so far
    stats,          \* history of the inputs the systems handled, and the
                    \* clients the transport holds connected
    budget          \* external stimuli (key presses, arrivals) still to come

vars == <<variant, cli, phase, ran, ever_ran, frame, resources, local_player,
          next_entity, entities, commands, added, keys, dt, player_input,
          other_input, from_client, from_client_2, server_events, inputs_count,
          count_changed, timmy, mapping, stats, budget>>

----------------------------------------------------------------------------
(* Bounds of the model.                                                    *)

\* Update frames run before the model stops.
MaxFrames == 3
\* External stimuli in one run: frames with a key pressed or held, events
\* that arrive, replicated entities that arrive.
MaxStimuli == 2

(* Program constants.                                                      *)
SERVER_ID == 0
MOVESPEED == 50

\* the value of an absent id (no participant carries it)
NoId == SERVER_ID - 1

\* ids of the remote clients a server hears from
ClientIds == {1, 2}
\* the clients whose disconnection a server hears of
DisconnectingIds == {1}
\* the ids this process may take when it is started as a client
LocalClientIds == {1}
\* entity ids of a remote client's world, the payload of its Shoot events
RemoteEntities == {7}
\* delta_seconds of a frame after the first one, in whole seconds
DeltaValues == {3}
\* the steps of cli_system that can return Err
StartupFailures == {"time", "bind", "transport"}

----------------------------------------------------------------------------
(* Values.                                                                 *)

Zero == <<0, 0>>

VAdd(a, b) == <<a[1] + b[1], a[2] + b[2]>>

\* Vec2 * f32, the scalar a whole number
VScale(a, k) == <<a[1] * k, a[2] * k>>

\* Vec2::normalize_or_zero on the sums player_movement_system can build
\* (components in -1, 0, 1, here in thousandths): a diagonal has length
\* sqrt 2, so each component becomes 0.707
NormalizeOrZero(v) ==
    IF v = Zero THEN Zero
    ELSE IF v[1] # 0 /\ v[2] # 0
         THEN <<(v[1] \div 1000) * 707, (v[2] \div 1000) * 707>>
         ELSE v

\* decimal digits of a natural number, most significant first
RECURSIVE Digits(_)
Digits(n) ==
    LET d == <<"0", "1", "2", "3", "4", "5", "6", "7", "8", "9">>[(n % 10) + 1]
    IN IF n < 10 THEN <<d>> ELSE Append(Digits(n \div 10), d)

\* format!("{input_count} total"), a text as the sequence of its pieces
CountText(n) == Digits(n) \o <<" total">>

\* the components of an entity; absent components hold their default value
Entity(comps, player, pos, dir, text) ==
    [comps |-> comps, player |-> player, pos |-> pos, dir |-> dir, text |-> text]

Has(e, c) == c \in entities[e].comps

\* entities matched by a query over the components cs
Query(cs) == {e \in DOMAIN entities : cs \subseteq entities[e].comps}

\* the orders in which a query may yield the entities of S
Orders(S) ==
    {f \in [1..Cardinality(S) -> S] : \A i, j \in DOMAIN f : i # j => f[i] # f[j]}

----------------------------------------------------------------------------
(* Commands.                                                               *)

Spawn(id, e) == [op |-> "spawn", id |-> id, e |-> e, res |-> "", val |-> NoId]
Insert(id, e) == [op |-> "insert", id |-> id, e |-> e, res |-> "", val |-> NoId]
InsertResource(r, v) ==
    [op |-> "insert_resource", id |-> 0, e |-> Entity({}, NoId, Zero, Zero, <<>>),
     res |-> r, val |-> v]

Decoy == Entity({"PlayerSpawnedComponent", "Replication"}, NoId, Zero, Zero, <<>>)

StartupSystems == {"cli_system", "init_system"}

\* the Update systems of a variant, in the order main() registers them
UpdateOrder(v) ==
    IF v = "main"
    THEN <<"player_input_system", "player_movement_system", "move_player_system",
           "update_input_count_text", "entity_tracker_system",
           "attach_extras_to_players", "receive_player_input_system",
           "server_connection_events_system", "client_tracker_system",
           "client_random_spawn_system">>
    ELSE <<"player_input_system", "update_input_count_text",
           "entity_tracker_system", "attach_extras_to_players",
           "receive_player_input_system", "server_connection_events_system",
           "client_random_spawn_system">>

AllSystems ==
    StartupSystems \cup {UpdateOrder("main")[i] : i \in DOMAIN UpdateOrder("main")}

\* systems that filter on Added<Replication>
AddedSystems ==
    {"entity_tracker_system", "attach_extras_to_players", "client_tracker_system"}

\* has_authority(): no RenetClient resource
has_authority == "RenetClient" \notin resources

\* run conditions that put the client-only systems on the server
RunCondition_Swapped(v, s) ==
    CASE s = "receive_player_input_system" ->
            IF v = "main" THEN has_authority ELSE "RenetServer" \in resources
      [] s = "server_connection_events_system" -> "RenetServer" \in resources
      [] s \in {"client_tracker_system", "client_random_spawn_system"} ->
            "RenetServer" \in resources
      [] OTHER -> TRUE

\* the run condition main() gives a system
RunCondition(v, s) ==
    CASE s = "receive_player_input_system" ->
            IF v = "main" THEN has_authority ELSE "RenetServer" \in resources
      [] s = "server_connection_events_system" -> "RenetServer" \in resources
      [] s \in {"client_tracker_system", "client_random_spawn_system"} ->
            "RenetClient" \in resources
      [] OTHER -> TRUE

\* the Update systems that run in a frame of this process
Scheduled ==
    {UpdateOrder(variant)[i] : i \in DOMAIN UpdateOrder(variant)}
        \cap {s \in AllSystems : RunCondition(variant, s)}

----------------------------------------------------------------------------
(* Startup.                                                                *)

NoCommands == [s \in AllSystems |-> <<>>]

NoKeys == [space |-> FALSE, ret |-> FALSE, held |-> {}]

\* the stimuli a run may still bring, in all and of each kind
Budget(total, key, net, conn, replica) ==
    [total |-> total, key |-> key, net |-> net, conn |-> conn, replica |-> replica]

\* the state after App::new()...: nothing has run yet
InitWith(variants, roles, b) ==
    /\ variant \in variants
    /\ cli \in roles
    /\ budget = b
    /\ phase = "startup"
    /\ ran = {}
    /\ ever_ran = {}
    /\ frame = 0
    /\ resources = {}
    /\ local_player = NoId
    /\ next_entity = 1
    /\ entities = <<>>
    /\ commands = NoCommands
    /\ added = [s \in AddedSystems |-> {}]
    /\ keys = NoKeys
    /\ dt = 0
    /\ player_input = <<>>
    /\ other_input = <<>>
    /\ from_client = <<>>
    /\ from_client_2 = <<>>
    /\ server_events = <<>>
    /\ inputs_count = 0
    /\ count_changed = TRUE
    /\ timmy = 0
    /\ mapping = <<>>
    /\ stats = [keypresses |-> 0, client_shoots |-> 0, connected |-> 0, online |-> {}]

\* either variant in either role, any MaxStimuli stimuli
Init ==
    InitWith({"main", "test_2"}, {"Server", "Client"},
             Budget(MaxStimuli, MaxStimuli, MaxStimuli, MaxStimuli, MaxStimuli))

\* a main.rs server that clients connect to: no keys, more connections
InitMainServer ==
    InitWith({"main"}, {"Server"}, Budget(MaxStimuli + 2, 0, 1, MaxStimuli + 1, 0))

\* a test_2.rs server that clients connect to
InitTest2Server ==
    InitWith({"test_2"}, {"Server"}, Budget(MaxStimuli + 3, 1, 1, MaxStimuli + 2, 0))

Ok(cmds) == [ok |-> TRUE, cmds |-> cmds]
Err(cmds) == [ok |-> FALSE, cmds |-> cmds]

RoleText(t) == Entity({"Text"}, NoId, Zero, Zero, t)

PlayerEntity(id, extra) ==
    Entity({"Player", "Position", "Replication"} \cup extra, id, Zero, Zero, <<>>)

\* a cli_system that inserts the server or client resource as soon as it is
\* built, before the steps that can fail
CliSystemBody_EarlyInsert(c, fail, now, id, lp) ==
    LET first == IF c = "Server" THEN <<InsertResource("RenetServer", NoId)>>
                 ELSE <<InsertResource("RenetClient", NoId)>>
    IN IF fail # "none" THEN Err(first)
       ELSE Ok(first \o <<Spawn(id, RoleText(<<"Role">>))>>)

\* The body of cli_system: what it returns and the commands it has queued by
\* then. `fail` names the step that returns Err (or "none"), `now` is the
\* clock reading a client takes its id from, `id` the next free entity id,
\* `lp` whether the variant keeps a LocalPlayerId (main.rs does).
CliSystemBody(c, fail, now, id, lp) ==
    IF c = "Server"
    THEN IF fail = "time" THEN Err(<<>>)
         ELSE IF fail = "bind" THEN Err(<<>>)
         ELSE IF fail = "transport" THEN Err(<<>>)
         ELSE Ok(<<InsertResource("RenetServer", NoId),
                   InsertResource("NetcodeServerTransport", NoId),
                   Spawn(id, RoleText(<<"Server">>))>>
                 \o (IF lp THEN <<InsertResource("LocalPlayerId", SERVER_ID)>>
                           ELSE <<>>)
                 \o <<Spawn(id + 1, PlayerEntity(SERVER_ID, {}))>>)
    ELSE IF fail = "time" THEN Err(<<>>)
         ELSE IF fail = "bind" THEN Err(<<>>)
         ELSE IF fail = "transport" THEN Err(<<>>)
         ELSE Ok(<<InsertResource("RenetClient", NoId),
                   InsertResource("NetcodeClientTransport", NoId),
                   Spawn(id, RoleText(<<"Client: ">> \o Digits(now)))>>
                 \o (IF lp THEN <<InsertResource("LocalPlayerId", now)>>
                           ELSE <<>>))

\* ids reserved by the spawns of a command buffer
Spawned(cmds) == Cardinality({i \in DOMAIN cmds : cmds[i].op = "spawn"})

\* `.map(Result::unwrap)`: Ok lets the schedule go on, Err panics
Unwrap(r) == IF r.ok THEN "startup" ELSE "aborted"

CliSystemStep(lp) ==
    /\ phase = "startup"
    /\ "cli_system" \notin ran
    /\ \E fail \in StartupFailures \cup {"none"}, now \in LocalClientIds :
         LET r == CliSystemBody(cli, fail, now, next_entity, lp)
         IN /\ commands' = [commands EXCEPT !["cli_system"] = r.cmds]
            /\ next_entity' = next_entity + Spawned(r.cmds)
            /\ phase' = Unwrap(r)
            /\ ran' = IF r.ok THEN ran \cup {"cli_system"} ELSE ran
    /\ UNCHANGED <<variant, cli, ever_ran, frame, resources, local_player, entities,
                   added, keys, dt, player_input, other_input, from_client,
                   from_client_2, server_events, inputs_count, count_changed,
                   timmy, mapping, stats, budget>>

cli_system == variant = "main" /\ CliSystemStep(TRUE)

test_2_cli_system == variant = "test_2" /\ CliSystemStep(FALSE)

\* an init_system that spawns the text without its marker
InitSystemBody_NoMarker(id) ==
    <<Spawn(id, Entity({"Camera"}, NoId, Zero, Zero, <<>>)),
      Spawn(id + 1, Entity({"Text"}, NoId, Zero, Zero, <<"0", " total">>))>>

\* the commands of init_system: the camera and the counter text
InitSystemBody(id) ==
    <<Spawn(id, Entity({"Camera"}, NoId, Zero, Zero, <<>>)),
      Spawn(id + 1,
            Entity({"Text", "PlayerSpawnCountText"}, NoId, Zero, Zero,
                   <<"0", " total">>))>>

init_system ==
    /\ phase = "startup"
    /\ "init_system" \notin ran
    /\ commands' = [commands EXCEPT !["init_system"] = InitSystemBody(next_entity)]
    /\ next_entity' = next_entity + 2
    /\ ran' = ran \cup {"init_system"}
    /\ UNCHANGED <<variant, cli, phase, ever_ran, frame, resources, local_player,
                   entities, added, keys, dt, player_input, other_input,
                   from_client, from_client_2, server_events, inputs_count,
                   count_changed, timmy, mapping, stats, budget>>

----------------------------------------------------------------------------
(* Applying the deferred commands.                                         *)

World(es, rs, lp, ad) == [entities |-> es, resources |-> rs, local_player |-> lp, added |-> ad]

\* one command applied to a world
ApplyCommand(w, c) ==
    CASE c.op = "spawn" ->
            [w EXCEPT !.entities = (c.id :> c.e) @@ w.entities,
                      !.added = IF "Replication" \in c.e.comps
                                THEN [s \in AddedSystems |-> w.added[s] \cup {c.id}]
                                ELSE w.added]
      [] c.op = "insert" ->
            [w EXCEPT !.entities[c.id] =
                [@ EXCEPT !.comps = @ \cup c.e.comps,
                          !.dir = IF "MoveDirection" \in c.e.comps THEN c.e.dir ELSE @]]
      [] c.op = "insert_resource" ->
            [w EXCEPT !.resources = @ \cup {c.res},
                      !.local_player = IF c.res = "LocalPlayerId" THEN c.val ELSE @]

RECURSIVE ApplyCommands(_, _)
ApplyCommands(w, cmds) ==
    IF cmds = <<>> THEN w
    ELSE ApplyCommands(ApplyCommand(w, Head(cmds)), Tail(cmds))

\* the buffers of the systems `order`, one after the other
RECURSIVE Buffers(_, _)
Buffers(order, bufs) ==
    IF order = <<>> THEN <<>>
    ELSE bufs[Head(order)] \o Buffers(Tail(order), bufs)

Applied(order) ==
    ApplyCommands(World(entities, resources, local_player, added),
                  Buffers(order, commands))

----------------------------------------------------------------------------
(* Events and the inputs a frame can bring.                                *)

None == [kind |-> "None", entity |-> 0, dir |-> Zero]
Shoot(e) == [kind |-> "Shoot", entity |-> e, dir |-> Zero]
Movement(v) == [kind |-> "Movement", entity |-> 0, dir |-> v]

FromClient(c, ev) == [client_id |-> c, event |-> ev]

ClientConnected(c) == [kind |-> "ClientConnected", client_id |-> c]
ClientDisconnected(c) == [kind |-> "ClientDisconnected", client_id |-> c]

\* sequences over S of length at most n
RECURSIVE SeqsUpTo(_, _)
SeqsUpTo(S, n) ==
    IF n = 0 THEN {<<>>}
    ELSE LET shorter == SeqsUpTo(S, n - 1)
         IN shorter \cup {Append(q, x) : q \in shorter, x \in S}

\* the W/A/S/D keys that may be held in a frame
HeldSets == {{}, {"W", "D"}, {"A", "D"}}

\* the directions remote clients send: sums of held keys, normalized
RemoteMoves == {<<1000, 0>>, <<-707, 707>>}

\* the PlayerInput events remote clients send to a server of variant v
RemoteInputs(v) ==
    {None} \cup {Shoot(e) : e \in RemoteEntities}
           \cup (IF v = "main" THEN {Movement(d) : d \in RemoteMoves} ELSE {})

\* what the network delivers to the readers of a server in one frame
NetArrivals(v) ==
    SeqsUpTo({FromClient(c, ev) : c \in ClientIds, ev \in RemoteInputs(v)}, budget.net)

NetArrivals2 == SeqsUpTo({FromClient(c, TRUE) : c \in ClientIds}, budget.net)

\* the clients connected after the server events q, from those in online
RECURSIVE Online(_, _)
Online(q, online) ==
    IF q = <<>> THEN online
    ELSE Online(Tail(q), IF Head(q).kind = "ClientConnected"
                         THEN online \cup {Head(q).client_id}
                         ELSE online \ {Head(q).client_id})

\* the transport connects a client that is not connected and disconnects
\* one that is
RECURSIVE Connectable(_, _)
Connectable(q, online) ==
    \/ q = <<>>
    \/ /\ q # <<>>
       /\ (Head(q).kind = "ClientConnected") = (Head(q).client_id \notin online)
       /\ Connectable(Tail(q), Online(<<Head(q)>>, online))

\* the server events the transport raises in one frame
ServerArrivals ==
    {q \in SeqsUpTo({ClientConnected(c) : c \in ClientIds}
                      \cup {ClientDisconnected(c) : c \in DisconnectingIds},
                    budget.conn) : Connectable(q, stats.online)}

\* the entities replication brings to a client before a frame: nothing new
\* (also an entity the ClientEntityMap maps to a local one), a decoy, a player
ReplicaArrivals ==
    {<<>>, <<Decoy>>} \cup {<<PlayerEntity(c, {})>> : c \in {SERVER_ID} \cup LocalClientIds}

----------------------------------------------------------------------------
(* The Update systems.                                                     *)

\* an input that takes n of the stimuli of kind k the run still has
Costs(k, n) ==
    /\ n <= budget.total
    /\ n <= budget[k]
    /\ budget' = [budget EXCEPT !.total = @ - n, ![k] = @ - n]

\* The Update systems in sets that share data through their parameters:
\*  1: InputsCount (update_input_count_text reads it, entity_tracker_system
\*     writes it);
\*  2: a system that only reads its query and queues commands
\*     (client_tracker_system; attach_extras_to_players of test_2.rs);
\*  3: the entity allocator, the PlayerInput events, Position and
\*     MoveDirection (every other system).
ConflictGroup(v, s) ==
    CASE s \in {"update_input_count_text", "entity_tracker_system"} -> 1
      [] s = "client_tracker_system" -> 2
      [] s = "attach_extras_to_players" /\ v = "test_2" -> 2
      [] OTHER -> 3

CanRun(s) ==
    /\ phase = "update"
    /\ frame <= MaxFrames
    /\ s \in Scheduled
    /\ s \notin ran
    /\ \A t \in Scheduled :
            ConflictGroup(variant, t) < ConflictGroup(variant, s) => t \in ran

Ran(s) ==
    /\ ran' = ran \cup {s}
    /\ ever_ran' = ever_ran \cup {s}

Push(s, cmds) == commands' = [commands EXCEPT ![s] = @ \o cmds]

\* what a run of player_input_system queues and sends
Sent(cmds, events, others) == [cmds |-> cmds, events |-> events, others |-> others]

\* a player_input_system whose event carries another id than the spawned one
PlayerInputBody_WrongId(space, id) ==
    IF ~space THEN Sent(<<>>, <<>>, <<>>)
    ELSE Sent(<<Spawn(id, Decoy)>>, <<Shoot(id + 1)>>, <<>>)

\* main.rs: the body of player_input_system; `space` is
\* input.just_pressed(KeyCode::Space), `id` the next free entity id
PlayerInputBody(space, id) ==
    IF ~space THEN Sent(<<>>, <<>>, <<>>)
    ELSE LET spawned_entity == id
         IN Sent(<<Spawn(spawned_entity, Decoy)>>, <<Shoot(spawned_entity)>>, <<>>)

\* test_2.rs: the body of player_input_system; `ret` is
\* input.just_pressed(KeyCode::Return)
Test2PlayerInputBody(space, ret, id) ==
    IF space
    THEN LET spawned_entity == id
         IN Sent(<<Spawn(spawned_entity, Decoy)>>, <<Shoot(spawned_entity)>>, <<>>)
    ELSE IF ret THEN Sent(<<>>, <<>>, <<TRUE>>)
    ELSE Sent(<<>>, <<>>, <<>>)

\* main.rs
player_input_system ==
    /\ variant = "main"
    /\ CanRun("player_input_system")
    /\ Ran("player_input_system")
    /\ \E space \in BOOLEAN :
         LET out == PlayerInputBody(space, next_entity)
         IN /\ Costs("key", IF space THEN 1 ELSE 0)
            /\ keys' = [keys EXCEPT !.space = space]
            /\ Push("player_input_system", out.cmds)
            /\ next_entity' = next_entity + Spawned(out.cmds)
            /\ player_input' = player_input \o out.events
            /\ stats' = [stats EXCEPT !.keypresses = @ + (IF space THEN 1 ELSE 0)]
    /\ UNCHANGED <<variant, cli, phase, frame, resources, local_player, entities,
                   added, dt, other_input, from_client, from_client_2,
                   server_events, inputs_count, count_changed, timmy, mapping>>

\* test_2.rs
test_2_player_input_system ==
    /\ variant = "test_2"
    /\ CanRun("player_input_system")
    /\ Ran("player_input_system")
    /\ \E space \in BOOLEAN, ret \in BOOLEAN :
         LET out == Test2PlayerInputBody(space, ret, next_entity)
         IN /\ Costs("key", IF space \/ ret THEN 1 ELSE 0)
            /\ keys' = [keys EXCEPT !.space = space, !.ret = ret]
            /\ Push("player_input_system", out.cmds)
            /\ next_entity' = next_entity + Spawned(out.cmds)
            /\ player_input' = player_input \o out.events
            /\ other_input' = other_input \o out.others
            /\ stats' = [stats EXCEPT !.keypresses = @ + (IF space THEN 1 ELSE 0)]
    /\ UNCHANGED <<variant, cli, phase, frame, resources, local_player, entities,
                   added, dt, from_client, from_client_2, server_events,
                   inputs_count, count_changed, timmy, mapping>>

\* the sum of the held directions, before it is normalized
HeldDirection(held) ==
    VAdd(VAdd(IF "D" \in held THEN <<1000, 0>> ELSE Zero,
              IF "A" \in held THEN <<-1000, 0>> ELSE Zero),
         VAdd(IF "W" \in held THEN <<0, 1000>> ELSE Zero,
              IF "S" \in held THEN <<0, -1000>> ELSE Zero))

\* a send that is not guarded by direction != Vec2::ZERO
MovementEvents_Unguarded(direction) == <<Movement(NormalizeOrZero(direction))>>

\* what player_movement_system sends for the direction it summed
MovementEvents(direction) ==
    IF direction # Zero THEN <<Movement(NormalizeOrZero(direction))>> ELSE <<>>

player_movement_system ==
    /\ variant = "main"
    /\ CanRun("player_movement_system")
    /\ Ran("player_movement_system")
    /\ \E held \in HeldSets :
         LET direction == HeldDirection(held)
         IN /\ Costs("key", IF held = {} THEN 0 ELSE 1)
            /\ keys' = [keys EXCEPT !.held = held]
            /\ player_input' = player_input \o MovementEvents(direction)
    /\ UNCHANGED <<variant, cli, phase, frame, resources, local_player, next_entity,
                   entities, commands, added, dt, other_input, from_client,
                   from_client_2, server_events, inputs_count, count_changed,
                   timmy, mapping, stats>>

move_player_system ==
    /\ variant = "main"
    /\ CanRun("move_player_system")
    /\ Ran("move_player_system")
    /\ entities' =
            [e \in DOMAIN entities |->
                IF {"Position", "MoveDirection", "Player"} \subseteq entities[e].comps
                THEN [entities[e] EXCEPT
                        !.pos = VAdd(@, VScale(entities[e].dir, dt * MOVESPEED))]
                ELSE entities[e]]
    /\ UNCHANGED <<variant, cli, phase, frame, resources, local_player, next_entity,
                   commands, added, keys, dt, player_input, other_input,
                   from_client, from_client_2, server_events, inputs_count,
                   count_changed, timmy, mapping, stats, budget>>

\* the text entities single_mut() looks among
CountTexts == Query({"Text", "PlayerSpawnCountText"})

\* a text that is set to the string it started with
UpdatedText_Constant(world, e, input_count) ==
    [world EXCEPT ![e].text = <<"0", " total">>]

\* sections[0].value = format!("{input_count} total") on the text entity e
UpdatedText(world, e, input_count) ==
    [world EXCEPT ![e].text = CountText(input_count)]

\* main.rs; test_2.rs:191-202 is the same function
update_input_count_text ==
    /\ CanRun("update_input_count_text")
    /\ Ran("update_input_count_text")
    /\ IF ~count_changed
       THEN UNCHANGED <<entities, count_changed, phase>>
       ELSE IF Cardinality(CountTexts) # 1
       THEN /\ phase' = "aborted"      \* single_mut() panics
            /\ UNCHANGED <<entities, count_changed>>
       ELSE /\ entities' = UpdatedText(entities, CHOOSE e \in CountTexts : TRUE,
                                        inputs_count)
            /\ count_changed' = FALSE
            /\ UNCHANGED phase
    /\ UNCHANGED <<variant, cli, frame, resources, local_player, next_entity,
                   commands, added, keys, dt, player_input, other_input,
                   from_client, from_client_2, server_events, inputs_count,
                   timmy, mapping, stats, budget>>

\* a query that lacks the Added<Replication> filter
NewEntities_Unfiltered(s, cs) == Query(cs \cup {"Replication"})

\* the entities a query filtered on Added<Replication> yields to system s
NewEntities(s, cs) == added[s] \cap Query(cs \cup {"Replication"})

\* one Insert command per entity of S, in ascending id order
RECURSIVE InsertAll(_, _)
InsertAll(S, e) ==
    IF S = {} THEN <<>>
    ELSE LET m == CHOOSE x \in S : \A y \in S : x <= y
         IN <<Insert(m, e)>> \o InsertAll(S \ {m}, e)

Marker(c) == Entity({c}, NoId, Zero, Zero, <<>>)

\* the loop of entity_tracker_system over its query: the new InputsCount
Tracked(count, new_entites) == count + Cardinality(new_entites)

\* main.rs
entity_tracker_system ==
    /\ variant = "main"
    /\ CanRun("entity_tracker_system")
    /\ Ran("entity_tracker_system")
    /\ LET new_entites == NewEntities("entity_tracker_system", {"PlayerSpawnedComponent"})
       IN /\ inputs_count' = Tracked(inputs_count, new_entites)
          /\ count_changed' = (count_changed \/ new_entites # {})
          /\ Push("entity_tracker_system", InsertAll(new_entites, Marker("RandomComponent")))
    /\ added' = [added EXCEPT !["entity_tracker_system"] = {}]
    /\ UNCHANGED <<variant, cli, phase, frame, resources, local_player, next_entity,
                   entities, keys, dt, player_input, other_input, from_client,
                   from_client_2, server_events, timmy, mapping, stats, budget>>

\* test_2.rs
test_2_entity_tracker_system ==
    /\ variant = "test_2"
    /\ CanRun("entity_tracker_system")
    /\ Ran("entity_tracker_system")
    /\ LET new_entites == NewEntities("entity_tracker_system", {"PlayerSpawnedComponent"})
       IN /\ inputs_count' = Tracked(inputs_count, new_entites)
          /\ count_changed' = (count_changed \/ new_entites # {})
    /\ added' = [added EXCEPT !["entity_tracker_system"] = {}]
    /\ UNCHANGED <<variant, cli, phase, frame, resources, local_player, next_entity,
                   entities, commands, keys, dt, player_input, other_input,
                   from_client, from_client_2, server_events, timmy, mapping, stats, budget>>

client_tracker_system ==
    /\ variant = "main"
    /\ CanRun("client_tracker_system")
    /\ Ran("client_tracker_system")
    /\ Push("client_tracker_system",
            InsertAll(NewEntities("client_tracker_system", {"PlayerSpawnedComponent"}),
                      Marker("RandomOtherComponent")))
    /\ added' = [added EXCEPT !["client_tracker_system"] = {}]
    /\ UNCHANGED <<variant, cli, phase, frame, resources, local_player, next_entity,
                   entities, keys, dt, player_input, other_input, from_client,
                   from_client_2, server_events, inputs_count, count_changed,
                   timmy, mapping, stats, budget>>

\* main.rs; test_2.rs:175-189 is the same function
client_random_spawn_system ==
    /\ CanRun("client_random_spawn_system")
    /\ Ran("client_random_spawn_system")
    /\ IF timmy - dt > 0
       THEN /\ timmy' = timmy - dt
            /\ UNCHANGED <<commands, next_entity>>
       ELSE /\ timmy' = 5
            /\ Push("client_random_spawn_system",
                    <<Spawn(next_entity, Entity({"Transform"}, NoId, Zero, Zero, <<>>))>>)
            /\ next_entity' = next_entity + 1
    /\ UNCHANGED <<variant, cli, phase, frame, resources, local_player, entities,
                   added, keys, dt, player_input, other_input, from_client,
                   from_client_2, server_events, inputs_count, count_changed,
                   mapping, stats, budget>>

\* the commands attach_extras_to_players queues for the players `ps`:
\* a sprite for each, and a MoveDirection for the local player
RECURSIVE AttachExtras(_, _)
AttachExtras(ps, local) ==
    IF ps = {} THEN <<>>
    ELSE LET m == CHOOSE x \in ps : \A y \in ps : x <= y
         IN <<Insert(m, Marker("Sprite"))>>
            \o (IF entities[m].player = local
                THEN <<Insert(m, Marker("MoveDirection"))>> ELSE <<>>)
            \o AttachExtras(ps \ {m}, local)

\* main.rs
attach_extras_to_players ==
    /\ variant = "main"
    /\ CanRun("attach_extras_to_players")
    /\ Ran("attach_extras_to_players")
    /\ Push("attach_extras_to_players",
            AttachExtras(NewEntities("attach_extras_to_players", {"Player", "Position"}),
                         local_player))
    /\ added' = [added EXCEPT !["attach_extras_to_players"] = {}]
    /\ UNCHANGED <<variant, cli, phase, frame, resources, local_player, next_entity,
                   entities, keys, dt, player_input, other_input, from_client,
                   from_client_2, server_events, inputs_count, count_changed,
                   timmy, mapping, stats, budget>>

\* test_2.rs
test_2_attach_extras_to_players ==
    /\ variant = "test_2"
    /\ CanRun("attach_extras_to_players")
    /\ Ran("attach_extras_to_players")
    /\ Push("attach_extras_to_players",
            InsertAll(NewEntities("attach_extras_to_players", {"Player"}),
                      Marker("Sprite")))
    /\ added' = [added EXCEPT !["attach_extras_to_players"] = {}]
    /\ UNCHANGED <<variant, cli, phase, frame, resources, local_player, next_entity,
                   entities, keys, dt, player_input, other_input, from_client,
                   from_client_2, server_events, inputs_count, count_changed,
                   timmy, mapping, stats, budget>>

----------------------------------------------------------------------------
(* The server-side readers.                                                *)

\* the state a reader's loop works on
Reader(cmds, next, map, world) ==
    [cmds |-> cmds, next |-> next, mapping |-> map, world |-> world]

\* a Shoot arm that maps the client's entity to itself
ReceiveShoot_SelfMapped(st, client_id, client_entity) ==
    [st EXCEPT !.cmds = Append(@, Spawn(st.next, Decoy)),
               !.next = @ + 1,
               !.mapping = Append(@, [client_id |-> client_id,
                                      tick |-> frame,
                                      server_entity |-> client_entity,
                                      client_entity |-> client_entity])]

\* the Shoot arm: spawn the server's own version and record the mapping
ReceiveShoot(st, client_id, client_entity) ==
    LET server_entity == st.next
    IN [st EXCEPT !.cmds = Append(@, Spawn(server_entity, Decoy)),
                  !.next = @ + 1,
                  !.mapping = Append(@, [client_id |-> client_id,
                                         tick |-> frame,
                                         server_entity |-> server_entity,
                                         client_entity |-> client_entity])]

\* a Movement arm that does not compare the player's id with the sender's
ReceiveMovement_AnyPlayer(st, client_id, move_dir, order) ==
    IF order = <<>> THEN st
    ELSE [st EXCEPT !.world[order[1]].dir = move_dir]

\* a Movement arm whose loop lacks the break
ReceiveMovement_NoBreak(st, client_id, move_dir, order) ==
    [st EXCEPT !.world = [e \in DOMAIN st.world |->
        IF (\E i \in DOMAIN order : order[i] = e) /\ st.world[e].player = client_id
        THEN [st.world[e] EXCEPT !.dir = move_dir]
        ELSE st.world[e]]]

\* the Movement arm: the first player of the query whose id is the sender's
ReceiveMovement(st, client_id, move_dir, order) ==
    LET hits == {i \in DOMAIN order : st.world[order[i]].player = client_id}
    IN IF hits = {} THEN st
       ELSE LET first == CHOOSE i \in hits : \A j \in hits : i <= j
            IN [st EXCEPT !.world[order[first]].dir = move_dir]

\* a loop body that lacks the SERVER_ID check
ReceiveOne_NoServerCheck(st, fc, order) ==
    CASE fc.event.kind = "None" -> st
      [] fc.event.kind = "Shoot" -> ReceiveShoot(st, fc.client_id, fc.event.entity)
      [] fc.event.kind = "Movement" ->
            ReceiveMovement(st, fc.client_id, fc.event.dir, order)

\* main.rs: the body of the loop over FromClient<PlayerInput>
ReceiveOne(st, fc, order) ==
    IF fc.client_id = SERVER_ID THEN st
    ELSE CASE fc.event.kind = "None" -> st
           [] fc.event.kind = "Shoot" -> ReceiveShoot(st, fc.client_id, fc.event.entity)
           [] fc.event.kind = "Movement" ->
                ReceiveMovement(st, fc.client_id, fc.event.dir, order)

RECURSIVE ReceiveAll(_, _, _)
ReceiveAll(st, evs, order) ==
    IF evs = <<>> THEN st
    ELSE ReceiveAll(ReceiveOne(st, Head(evs), order), Tail(evs), order)

\* test_2.rs: the body of the loop over FromClient<PlayerInput>
Test2ReceiveOne(st, fc) ==
    IF fc.client_id = SERVER_ID THEN st
    ELSE IF fc.event.kind # "Shoot" THEN st
    ELSE ReceiveShoot(st, fc.client_id, fc.event.entity)

RECURSIVE Test2ReceiveAll(_, _)
Test2ReceiveAll(st, evs) ==
    IF evs = <<>> THEN st
    ELSE Test2ReceiveAll(Test2ReceiveOne(st, Head(evs)), Tail(evs))

\* test_2.rs: the offset the i-th player of the query gets, i from 0
Offset(i) == <<25000 * ((i % 3) - 1), 0>>

\* test_2.rs: the inner loop over the players, for one OtherPlayerInput
MovePlayers(world, order) ==
    [e \in DOMAIN world |->
        IF \E i \in DOMAIN order : order[i] = e
        THEN LET i == CHOOSE k \in DOMAIN order : order[k] = e
             IN [world[e] EXCEPT !.pos = VAdd(@, Offset(i - 1))]
        ELSE world[e]]

\* a second loop that skips the server's own events as the first loop does
RECURSIVE Test2MoveAll_RemoteOnly(_, _, _)
Test2MoveAll_RemoteOnly(world, evs, order) ==
    IF evs = <<>> THEN world
    ELSE Test2MoveAll_RemoteOnly(IF Head(evs).client_id = SERVER_ID THEN world
                                 ELSE MovePlayers(world, order), Tail(evs), order)

\* test_2.rs: the loop over FromClient<OtherPlayerInput>
RECURSIVE Test2MoveAll(_, _, _)
Test2MoveAll(world, evs, order) ==
    IF evs = <<>> THEN world
    ELSE Test2MoveAll(MovePlayers(world, order), Tail(evs), order)

\* Shoot events of remote clients among evs
ClientShoots(evs) ==
    Cardinality({i \in DOMAIN evs :
                    evs[i].client_id # SERVER_ID /\ evs[i].event.kind = "Shoot"})

\* main.rs
receive_player_input_system ==
    /\ variant = "main"
    /\ CanRun("receive_player_input_system")
    /\ Ran("receive_player_input_system")
    /\ \E net \in NetArrivals("main"),
          order \in Orders(Query({"Player", "MoveDirection"})) :
         LET evs == from_client \o net
             st == ReceiveAll(Reader(<<>>, next_entity, mapping, entities), evs, order)
         IN /\ Costs("net", Len(net))
            /\ from_client' = evs
            /\ Push("receive_player_input_system", st.cmds)
            /\ next_entity' = st.next
            /\ mapping' = st.mapping
            /\ entities' = st.world
            /\ stats' = [stats EXCEPT !.client_shoots = @ + ClientShoots(evs)]
    /\ UNCHANGED <<variant, cli, phase, frame, resources, local_player, added, keys,
                   dt, player_input, other_input, from_client_2, server_events,
                   inputs_count, count_changed, timmy>>

\* test_2.rs
test_2_receive_player_input_system ==
    /\ variant = "test_2"
    /\ CanRun("receive_player_input_system")
    /\ Ran("receive_player_input_system")
    /\ \E net \in NetArrivals("test_2"), net2 \in NetArrivals2,
          order \in Orders(Query({"Position", "Player"})) :
         LET evs == from_client \o net
             evs2 == from_client_2 \o net2
             st == Test2ReceiveAll(Reader(<<>>, next_entity, mapping, entities), evs)
         IN /\ Costs("net", Len(net) + Len(net2))
            /\ from_client' = evs
            /\ from_client_2' = evs2
            /\ Push("receive_player_input_system", st.cmds)
            /\ next_entity' = st.next
            /\ mapping' = st.mapping
            /\ entities' = Test2MoveAll(st.world, evs2, order)
            /\ stats' = [stats EXCEPT !.client_shoots = @ + ClientShoots(evs)]
    /\ UNCHANGED <<variant, cli, phase, frame, resources, local_player, added, keys,
                   dt, player_input, other_input, server_events, inputs_count,
                   count_changed, timmy>>

\* a loop that spawns a player for a disconnection too
RECURSIVE ConnectionEvents_AnyEvent(_, _, _)
ConnectionEvents_AnyEvent(evs, id, extra) ==
    IF evs = <<>> THEN <<>>
    ELSE <<Spawn(id, PlayerEntity(Head(evs).client_id, extra))>>
         \o ConnectionEvents_AnyEvent(Tail(evs), id + 1, extra)

\* the loop of server_connection_events_system; `extra` is what the variant
\* spawns a player with besides Player, Position and Replication
RECURSIVE ConnectionEvents(_, _, _)
ConnectionEvents(evs, id, extra) ==
    IF evs = <<>> THEN <<>>
    ELSE IF Head(evs).kind = "ClientConnected"
    THEN <<Spawn(id, PlayerEntity(Head(evs).client_id, extra))>>
         \o ConnectionEvents(Tail(evs), id + 1, extra)
    ELSE ConnectionEvents(Tail(evs), id, extra)

Connections(evs) == Cardinality({i \in DOMAIN evs : evs[i].kind = "ClientConnected"})

ServerConnectionEventsStep(extra) ==
    /\ CanRun("server_connection_events_system")
    /\ Ran("server_connection_events_system")
    /\ \E evs \in ServerArrivals :
         LET cmds == ConnectionEvents(evs, next_entity, extra)
         IN /\ Costs("conn", Len(evs))
            /\ server_events' = evs
            /\ Push("server_connection_events_system", cmds)
            /\ next_entity' = next_entity + Spawned(cmds)
            /\ stats' = [stats EXCEPT !.connected = @ + Connections(evs),
                                      !.online = Online(evs, @)]
    /\ UNCHANGED <<variant, cli, phase, frame, resources, local_player, entities,
                   added, keys, dt, player_input, other_input, from_client,
                   from_client_2, inputs_count, count_changed, timmy, mapping>>

\* main.rs
server_connection_events_system ==
    variant = "main" /\ ServerConnectionEventsStep({"MoveDirection"})

\* test_2.rs
test_2_server_connection_events_system ==
    variant = "test_2" /\ ServerConnectionEventsStep({})

----------------------------------------------------------------------------
(* The end of a schedule pass.                                             *)

\* a client event written where the process has authority is re-emitted
\* as coming from SERVER_ID
RECURSIVE LocalResend(_)
LocalResend(evs) ==
    IF evs = <<>> THEN <<>>
    ELSE <<FromClient(SERVER_ID, Head(evs))>> \o LocalResend(Tail(evs))

\* the end of Startup: the buffers are applied and the first frame starts
StartupApplyDeferred ==
    /\ phase = "startup"
    /\ ran = StartupSystems
    /\ LET w == Applied(<<"cli_system", "init_system">>)
       IN /\ entities' = w.entities
          /\ resources' = w.resources
          /\ local_player' = w.local_player
          /\ added' = w.added
    /\ commands' = NoCommands
    /\ phase' = "update"
    /\ ran' = {}
    /\ frame' = 1
    /\ UNCHANGED <<variant, cli, ever_ran, next_entity, keys, dt, player_input,
                   other_input, from_client, from_client_2, server_events,
                   inputs_count, count_changed, timmy, mapping, stats, budget>>

\* the end of an Update pass: the buffers are applied, the events written
\* this frame are routed, and what the next frame starts with arrives
EndFrame ==
    /\ phase = "update"
    /\ frame <= MaxFrames
    /\ ran = Scheduled
    /\ \E delta \in (IF frame < MaxFrames THEN DeltaValues ELSE {0}),
          replica \in (IF frame < MaxFrames /\ ~has_authority
                       THEN ReplicaArrivals ELSE {<<>>}) :
         LET w == ApplyCommands(Applied(UpdateOrder(variant)),
                                [i \in DOMAIN replica |-> Spawn(next_entity, replica[i])])
         IN /\ entities' = w.entities
            /\ resources' = w.resources
            /\ local_player' = w.local_player
            /\ added' = w.added
            /\ next_entity' = next_entity + Len(replica)
            /\ dt' = delta
            /\ Costs("replica", Len(replica))
    /\ commands' = NoCommands
    /\ ran' = {}
    /\ frame' = frame + 1
    /\ keys' = NoKeys
    /\ from_client' = IF has_authority THEN LocalResend(player_input) ELSE <<>>
    /\ from_client_2' = IF has_authority THEN LocalResend(other_input) ELSE <<>>
    /\ player_input' = <<>>
    /\ other_input' = <<>>
    /\ server_events' = <<>>
    /\ UNCHANGED <<variant, cli, phase, ever_ran, inputs_count, count_changed,
                   timmy, mapping, stats>>

Next ==
    \/ cli_system
    \/ test_2_cli_system
    \/ init_system
    \/ StartupApplyDeferred
    \/ player_input_system
    \/ test_2_player_input_system
    \/ player_movement_system
    \/ move_player_system
    \/ update_input_count_text
    \/ entity_tracker_system
    \/ test_2_entity_tracker_system
    \/ client_tracker_system
    \/ client_random_spawn_system
    \/ attach_extras_to_players
    \/ test_2_attach_extras_to_players
    \/ receive_player_input_system
    \/ test_2_receive_player_input_system
    \/ server_connection_events_system
    \/ test_2_server_connection_events_system
    \/ EndFrame

Spec == Init /\ [][Next]_vars

\* the systems main() schedules on a main.rs server
NextMainServer ==
    \/ cli_system
    \/ init_system
    \/ StartupApplyDeferred
    \/ player_input_system
    \/ player_movement_system
    \/ move_player_system
    \/ update_input_count_text
    \/ entity_tracker_system
    \/ attach_extras_to_players
    \/ receive_player_input_system
    \/ server_connection_events_system
    \/ EndFrame

SpecMainServer == InitMainServer /\ [][NextMainServer]_vars

\* the systems main() schedules on a test_2.rs server
NextTest2Server ==
    \/ test_2_cli_system
    \/ init_system
    \/ StartupApplyDeferred
    \/ test_2_player_input_system
    \/ update_input_count_text
    \/ test_2_entity_tracker_system
    \/ test_2_attach_extras_to_players
    \/ test_2_receive_player_input_system
    \/ test_2_server_connection_events_system
    \/ EndFrame

SpecTest2Server == InitTest2Server /\ [][NextTest2Server]_vars

----------------------------------------------------------------------------
(* Properties.                                                             *)

\* the Shoot events among the PlayerInput events q
RECURSIVE SelectShoots(_)
SelectShoots(q) ==
    IF q = <<>> THEN <<>>
    ELSE (IF Head(q).kind = "Shoot" THEN <<Head(q)>> ELSE <<>>) \o SelectShoots(Tail(q))

\* the FromClient events of q that are Shoot events of remote clients
RECURSIVE SelectClientShoots(_)
SelectClientShoots(q) ==
    IF q = <<>> THEN <<>>
    ELSE (IF Head(q).client_id # SERVER_ID /\ Head(q).event.kind = "Shoot"
          THEN <<Head(q)>> ELSE <<>>) \o SelectClientShoots(Tail(q))

Decoys == Query({"PlayerSpawnedComponent", "Replication"})

Players == Query({"Player"})

IsServer == phase = "update" /\ cli = "Server"

\* C1: in both variants, once player_input_system has run in a frame: when
\* Space was just pressed it has queued the spawn of exactly one entity with
\* PlayerSpawnedComponent and Replication, under a fresh id, and has sent
\* exactly one Shoot event carrying that id; when Space was not just pressed
\* (and while the system has not run) it has queued no spawn and sent no
\* Shoot event.
C1_KeypressSpawnsDecoy ==
    phase = "update" =>
        LET cmds == commands["player_input_system"]
            shoots == SelectShoots(player_input)
        IN IF "player_input_system" \in ran /\ keys.space
           THEN /\ Len(cmds) = 1
                /\ Len(shoots) = 1
                /\ cmds[1].op = "spawn"
                /\ cmds[1].e.comps = {"PlayerSpawnedComponent", "Replication"}
                /\ cmds[1].id \notin DOMAIN entities
                /\ cmds[1].id < next_entity
                /\ \A s \in AllSystems \ {"player_input_system"} :
                      \A i \in DOMAIN commands[s] : commands[s][i].id # cmds[1].id
                /\ shoots[1].entity = cmds[1].id
           ELSE cmds = <<>> /\ shoots = <<>>

C1_Witness ==
    /\ phase = "update"
    /\ "player_input_system" \in ran
    /\ keys.space
    /\ variant = "test_2"
    /\ Len(commands["receive_player_input_system"]) > 0

\* C2: on a server, once receive_player_input_system has run in a frame: for
\* the Shoot events of remote clients among the events it read, in order, it
\* has queued exactly one spawn each of an entity with PlayerSpawnedComponent
\* and Replication under a fresh id, and the ClientEntityMap ends with exactly
\* one entry each, pairing that id with the event's client entity under the
\* sender's id at the current tick; None events (and every other event) add
\* no spawn and no entry. The map holds one entry per such Shoot event ever.
C2_ServerSpawnsItsVersion ==
    IsServer =>
        LET cmds == commands["receive_player_input_system"]
            shoots == IF "receive_player_input_system" \in ran
                      THEN SelectClientShoots(from_client) ELSE <<>>
            base == Len(mapping) - Len(shoots)
        IN /\ Len(cmds) = Len(shoots)
           /\ Len(mapping) = stats.client_shoots
           /\ \A i \in DOMAIN shoots :
                /\ cmds[i].op = "spawn"
                /\ cmds[i].e.comps = {"PlayerSpawnedComponent", "Replication"}
                /\ cmds[i].id \notin DOMAIN entities
                /\ \A j \in DOMAIN shoots : j # i => cmds[j].id # cmds[i].id
                /\ \A s \in AllSystems \ {"receive_player_input_system"} :
                      \A j \in DOMAIN commands[s] : commands[s][j].id # cmds[i].id
                /\ mapping[base + i] = [client_id |-> shoots[i].client_id,
                                        tick |-> frame,
                                        server_entity |-> cmds[i].id,
                                        client_entity |-> shoots[i].event.entity]

C2_Witness ==
    /\ IsServer
    /\ "receive_player_input_system" \in ran
    /\ Len(SelectClientShoots(from_client)) = 1
    /\ \E i \in DOMAIN from_client : from_client[i].event.kind = "None"
    /\ Len(mapping) = 1

RoleResources ==
    {"RenetServer", "NetcodeServerTransport", "RenetClient", "NetcodeClientTransport"}

ClientOnly == {"client_random_spawn_system", "client_tracker_system"}

\* C3: after a cli_system that succeeded, all through the Update frames: on
\* `server` exactly RenetServer and the server transport exist of the role
\* resources, server_connection_events_system is scheduled and no client-only
\* system has ever run; on `client` exactly RenetClient and the client
\* transport exist, the client-only systems of the variant are scheduled and
\* server_connection_events_system has never run.
C3_OneRole ==
    phase = "update" =>
        /\ cli = "Server" =>
              /\ resources \cap RoleResources = {"RenetServer", "NetcodeServerTransport"}
              /\ "server_connection_events_system" \in Scheduled
              /\ Scheduled \cap ClientOnly = {}
              /\ ever_ran \cap ClientOnly = {}
        /\ cli = "Client" =>
              /\ resources \cap RoleResources = {"RenetClient", "NetcodeClientTransport"}
              /\ "client_random_spawn_system" \in Scheduled
              /\ variant = "main" => "client_tracker_system" \in Scheduled
              /\ "server_connection_events_system" \notin Scheduled
              /\ "server_connection_events_system" \notin ever_ran

C3_Witness ==
    /\ phase = "update"
    /\ cli = "Client"
    /\ variant = "main"
    /\ frame > MaxFrames
    /\ ClientOnly \subseteq ever_ran

\* C4: when cli_system fails (the clock, the bind or the transport), the
\* process has stopped for good: no step is possible any more, and nothing of
\* cli_system has reached the world or its command buffer: no resource, no
\* LocalPlayerId, no entity, no queued command.
C4_StartupFailureLeavesNothing ==
    phase = "aborted" =>
        /\ resources = {}
        /\ local_player = NoId
        /\ entities = <<>>
        /\ commands["cli_system"] = <<>>
        /\ ~ENABLED Next

C4_Witness ==
    /\ phase = "aborted"
    /\ cli = "Server"
    /\ "init_system" \in ran

\* the ClientConnected events among the server events q
RECURSIVE SelectConnected(_)
SelectConnected(q) ==
    IF q = <<>> THEN <<>>
    ELSE (IF Head(q).kind = "ClientConnected" THEN <<Head(q)>> ELSE <<>>)
         \o SelectConnected(Tail(q))

C5_PlayerPerParticipant ==
    IsServer =>
        LET cmds == commands["server_connection_events_system"]
            conns == IF "server_connection_events_system" \in ran
                     THEN SelectConnected(server_events) ELSE <<>>
        IN /\ Len(cmds) = Len(conns)
           /\ \A i \in DOMAIN conns :
                /\ cmds[i].op = "spawn"
                /\ cmds[i].id \notin DOMAIN entities
                /\ \A j \in DOMAIN conns : j # i => cmds[j].id # cmds[i].id
                /\ {"Player", "Position", "Replication"} \subseteq cmds[i].e.comps
                /\ cmds[i].e.player = conns[i].client_id
                /\ cmds[i].e.pos = Zero
           /\ Cardinality(Players) + Len(cmds) = 1 + stats.connected
           /\ ran = {} => Cardinality(Players) = 1 + stats.connected
           /\ Cardinality({e \in Players : entities[e].player = SERVER_ID}) = 1
           /\ \A e \in Players :
                /\ {"Position", "Replication"} \subseteq entities[e].comps
                /\ (frame = 1 /\ ran = {}) =>
                      entities[e].player = SERVER_ID /\ entities[e].pos = Zero

\* C5: on a server of either variant: startup has spawned exactly one
\* Player(SERVER_ID) at (0,0) with Replication; once
\* server_connection_events_system has run in a frame it has queued exactly
\* one spawn of Player(client_id) at (0,0) with Replication for every
\* ClientConnected it read and nothing for a ClientDisconnected; the Player
\* entities, with the spawns still queued, number 1 plus the ClientConnected
\* events processed (exactly that many at every frame boundary); and no step
\* removes a Player entity.
C5_OnePlayerPerParticipant ==
    /\ []C5_PlayerPerParticipant
    /\ [][IsServer => Players \subseteq Players']_vars

C5_Witness ==
    /\ IsServer
    /\ ran = {}
    /\ stats.connected = 1
    /\ Cardinality(Players) = 2
    /\ budget.conn = 0

\* C6 as the specification states it: after any sequence of frames
\* InputsCount equals the number of PlayerSpawnedComponent entities that have
\* appeared in the local world with Replication.
C6_CountEqualsDecoysAfterFrames ==
    (phase = "update" /\ ran = {}) => inputs_count = Cardinality(Decoys)

C6_Tracked ==
    phase = "update" =>
        /\ inputs_count <= Cardinality(Decoys)
        /\ "entity_tracker_system" \in ran => inputs_count = Cardinality(Decoys)
        /\ (ran = {} /\ frame <= MaxFrames) =>
              inputs_count = Cardinality(Decoys \ added["entity_tracker_system"])

\* C6, amended: entity_tracker_system counts every PlayerSpawnedComponent
\* entity once, in its first run after the entity gained Replication (the
\* frame a replicated entity arrives in, the frame after the one whose
\* commands spawned a local entity): once it has run in a frame InputsCount
\* equals the number of such entities in the world, before that it is short
\* by exactly the entities that gained Replication since its last run, and
\* no step decreases InputsCount.
C6_CountsEachDecoyOnce ==
    /\ []C6_Tracked
    /\ [][inputs_count' >= inputs_count]_vars

C6_Witness ==
    /\ phase = "update"
    /\ ran = {}
    /\ inputs_count = 1
    /\ Cardinality(Decoys) = 2
    /\ frame = MaxFrames

\* the spawns of decoys still queued
QueuedDecoys ==
    Len(commands["player_input_system"]) + Len(commands["receive_player_input_system"])

\* C7: on a server of either variant the PlayerSpawnedComponent entities,
\* with the spawns still queued, number the Space keypresses handled plus the
\* Shoot events read from clients other than SERVER_ID, and exactly that many
\* at every frame boundary: the server's own Shoot events, which come back
\* tagged SERVER_ID, add no entity; and the ClientEntityMap never holds an
\* entry for SERVER_ID.
C7_ServerKeypressSpawnsOne ==
    IsServer =>
        /\ Cardinality(Decoys) + QueuedDecoys = stats.keypresses + stats.client_shoots
        /\ ran = {} => Cardinality(Decoys) = stats.keypresses + stats.client_shoots
        /\ \A i \in DOMAIN mapping : mapping[i].client_id # SERVER_ID

C7_Witness ==
    /\ IsServer
    /\ ran = {}
    /\ stats.keypresses = 1
    /\ stats.client_shoots = 1
    /\ Cardinality(Decoys) = 2
    /\ frame > MaxFrames

\* the text of the counter on screen
CounterText == entities[CHOOSE e \in CountTexts : TRUE].text

\* C10: the counter text is "0 total" with InputsCount 0 when the first
\* frame starts; whenever update_input_count_text has run since InputsCount
\* last changed the text is "n total" for the current InputsCount n; in a
\* frame where it has run and entity_tracker_system has not yet, the text is
\* current, so a change is shown by the system's next run at the latest;
\* and a run of the system while InputsCount has not changed since its last
\* run leaves every entity, the text included, as it was.
C10_TextCurrent ==
    phase = "update" =>
        /\ Cardinality(CountTexts) = 1
        /\ (frame = 1 /\ ran = {}) =>
              inputs_count = 0 /\ CounterText = <<"0", " total">>
        /\ ~count_changed => CounterText = CountText(inputs_count)
        /\ ("update_input_count_text" \in ran /\ "entity_tracker_system" \notin ran) =>
              ~count_changed
        /\ "update_input_count_text" \in ran =>
              \E n \in 0..inputs_count : CounterText = CountText(n)

C10_TextTracksCount ==
    /\ []C10_TextCurrent
    /\ [][("update_input_count_text" \in ran' \ ran /\ ~count_changed)
            => entities' = entities]_vars

C10_Witness ==
    /\ phase = "update"
    /\ CounterText = <<"2", " total">>
    /\ inputs_count = 2
    /\ ~count_changed

\* receive_player_input_system runs in this step
ReceiveStep == "receive_player_input_system" \in ran' \ ran

\* the Movement events of client c among the FromClient events q
RECURSIVE SelectMoves(_, _)
SelectMoves(q, c) ==
    IF q = <<>> THEN <<>>
    ELSE (IF Head(q).client_id = c /\ Head(q).event.kind = "Movement"
          THEN <<Head(q)>> ELSE <<>>) \o SelectMoves(Tail(q), c)

\* C8: in a run of receive_player_input_system on a main.rs server, for
\* every client c other than SERVER_ID that sent Movement events: if some
\* player entity with a MoveDirection has id c, exactly one of them gets the
\* direction of c's last Movement and every other player entity, of id c or
\* not, is left as it was; if none has id c nothing changes; no entity
\* changes in anything but its MoveDirection; and entities are queued and
\* ClientEntityMap entries inserted for the Shoot events of clients only.
C8_MovementSetsFirstPlayer ==
    [][(variant = "main" /\ IsServer /\ ReceiveStep) =>
        LET evs == from_client'
            movable == Query({"Player", "MoveDirection"})
        IN /\ DOMAIN entities' = DOMAIN entities
           /\ \A e \in DOMAIN entities \ movable : entities'[e] = entities[e]
           /\ \A e \in movable :
                [entities'[e] EXCEPT !.dir = entities[e].dir] = entities[e]
           /\ \A c \in {entities[e].player : e \in movable} :
                LET moves == SelectMoves(evs, c)
                    mine == {e \in movable : entities[e].player = c}
                IN IF c = SERVER_ID \/ moves = <<>>
                   THEN \A e \in mine : entities'[e] = entities[e]
                   ELSE \E e \in mine :
                          /\ entities'[e].dir = moves[Len(moves)].event.dir
                          /\ \A o \in mine \ {e} : entities'[o] = entities[o]
           /\ Len(commands'["receive_player_input_system"]) = ClientShoots(evs)
           /\ Len(mapping') = Len(mapping) + ClientShoots(evs)
           /\ next_entity' = next_entity + ClientShoots(evs)]_vars

C8_Witness ==
    /\ variant = "main"
    /\ IsServer
    /\ "receive_player_input_system" \in ran
    /\ \E i \in DOMAIN from_client :
         /\ from_client[i].event.kind = "Movement"
         /\ from_client[i].client_id # SERVER_ID
         /\ \E e, o \in Query({"Player", "MoveDirection"}) :
              /\ entities[e].player = from_client[i].client_id
              /\ entities[o].player = from_client[i].client_id
              /\ entities[e].dir = from_client[i].event.dir
              /\ entities[o].dir = Zero
              /\ from_client[i].event.dir # Zero
    /\ commands["receive_player_input_system"] = <<>>
    /\ mapping = <<>>

\* C9: in a run of receive_player_input_system on a test_2.rs server that
\* reads n OtherPlayerInput events, from any senders, SERVER_ID included,
\* there is an order of the player entities in which the i-th, i from 0, has
\* n times 25*((i mod 3) - 1) added to its Position x and nothing else
\* changed; every other entity is left as it was; and entities are queued and
\* ClientEntityMap entries inserted for the Shoot events of clients only.
C9_OtherInputShiftsPlayers ==
    [][(variant = "test_2" /\ IsServer /\ ReceiveStep) =>
        LET n == Len(from_client_2')
            players == Query({"Position", "Player"})
        IN /\ DOMAIN entities' = DOMAIN entities
           /\ \A e \in DOMAIN entities \ players : entities'[e] = entities[e]
           /\ \E order \in Orders(players) :
                \A k \in DOMAIN order :
                    LET i == k - 1
                        was == entities[order[k]]
                    IN entities'[order[k]] =
                         [was EXCEPT !.pos = <<was.pos[1] + n * 25000 * ((i % 3) - 1),
                                               was.pos[2]>>]
           /\ Len(commands'["receive_player_input_system"]) = ClientShoots(from_client')
           /\ Len(mapping') = Len(mapping) + ClientShoots(from_client')
           /\ next_entity' = next_entity + ClientShoots(from_client')]_vars

C9_Witness ==
    /\ variant = "test_2"
    /\ IsServer
    /\ "receive_player_input_system" \in ran
    /\ Len(from_client_2) = 1
    /\ from_client_2[1].client_id = SERVER_ID
    /\ \E a, b, c, d \in Players :
         /\ Cardinality({a, b, c, d}) = 4
         /\ entities[a].pos = <<-25000, 0>>
         /\ entities[b].pos = Zero
         /\ entities[c].pos = <<25000, 0>>
         /\ entities[d].pos = <<-25000, 0>>
    /\ commands["receive_player_input_system"] = <<>>
    /\ mapping = <<>>

\* the server's own player entities
ServerPlayers == {e \in Players : entities[e].player = SERVER_ID}

\* C11: on a main.rs server, in every state: the Player(SERVER_ID) entity
\* is at (0,0); it has no MoveDirection during the first frame and, from the
\* second frame on, the MoveDirection attach_extras_to_players inserted, which
\* is (0,0); neither the server's own Movement events, which come back tagged
\* SERVER_ID, nor the Movement events of clients change it.
C11_ServerPlayerNeverMoves ==
    (variant = "main" /\ IsServer) =>
        /\ ServerPlayers # {}
        /\ \A e \in ServerPlayers :
             /\ entities[e].pos = Zero
             /\ entities[e].dir = Zero
             /\ Has(e, "Position")
             /\ Has(e, "MoveDirection") = (frame > 1)
        /\ (frame = 1 /\ "attach_extras_to_players" \in ran) =>
              \A e \in ServerPlayers :
                \E i \in DOMAIN commands["attach_extras_to_players"] :
                  LET c == commands["attach_extras_to_players"][i]
                  IN c.op = "insert" /\ c.id = e
                     /\ "MoveDirection" \in c.e.comps /\ c.e.dir = Zero

C11_Witness ==
    /\ variant = "main"
    /\ IsServer
    /\ {"receive_player_input_system", "move_player_system"} \subseteq ran
    /\ dt > 0
    /\ \E i \in DOMAIN from_client :
         /\ from_client[i].client_id = SERVER_ID
         /\ from_client[i].event.kind = "Movement"
         /\ from_client[i].event.dir # Zero
    /\ \E e \in ServerPlayers : Has(e, "MoveDirection") /\ entities[e].pos = Zero

\* 1 when key k is held in the set held, else 0
Pressed(held, k) == IF k \in held THEN 1 ELSE 0

\* the client players that move_player_system moves on a server
MovingPlayers ==
    {e \in Query({"Player", "Position", "MoveDirection"}) :
        entities[e].player # SERVER_ID}

\* C12: in main.rs: a run of player_movement_system sends nothing when D
\* and A cancel and W and S cancel, and otherwise sends exactly one Movement
\* whose vector is the sum of the held directions normalized (0.707 per axis
\* on a diagonal), which is never (0,0); on a server the MoveDirection of a
\* client's player changes only in a run of receive_player_input_system that
\* read a Movement of that client, to the vector of such an event, and once
\* non-zero it is non-zero after every step; and every run of
\* move_player_system adds MoveDirection * delta * MOVESPEED to the Position
\* of each such player, so the player moves in every frame with a positive
\* delta.
C12_MovementPersists ==
    /\ [][(variant = "main" /\ "player_movement_system" \in ran' \ ran) =>
            LET held == keys'.held
                x == Pressed(held, "D") - Pressed(held, "A")
                y == Pressed(held, "W") - Pressed(held, "S")
                unit == IF x # 0 /\ y # 0 THEN 707 ELSE 1000
            IN player_input' =
                 player_input \o (IF x = 0 /\ y = 0 THEN <<>>
                                  ELSE <<Movement(<<x * unit, y * unit>>)>>)]_vars
    /\ [][(variant = "main" /\ IsServer) =>
            \A e \in Players :
                entities[e].player # SERVER_ID =>
                    /\ e \in DOMAIN entities'
                    /\ entities[e].dir # Zero => entities'[e].dir # Zero
                    /\ entities'[e].dir # entities[e].dir =>
                          /\ ReceiveStep
                          /\ \E i \in DOMAIN from_client' :
                               /\ from_client'[i].client_id = entities[e].player
                               /\ from_client'[i].event.kind = "Movement"
                               /\ from_client'[i].event.dir = entities'[e].dir]_vars
    /\ [][(variant = "main" /\ IsServer /\ "move_player_system" \in ran' \ ran) =>
            \A e \in MovingPlayers :
                /\ entities'[e] =
                     [entities[e] EXCEPT
                        !.pos = <<@[1] + entities[e].dir[1] * dt * MOVESPEED,
                                  @[2] + entities[e].dir[2] * dt * MOVESPEED>>]
                /\ (dt > 0 /\ entities[e].dir # Zero) =>
                      entities'[e].pos # entities[e].pos]_vars

\* a client's player that got its direction in an earlier frame and has moved
\* in that frame and in this one, in which no event came
C12_Witness ==
    /\ variant = "main"
    /\ IsServer
    /\ {"receive_player_input_system", "move_player_system"} \subseteq ran
    /\ from_client = <<>>
    /\ dt > 0
    /\ \E e \in MovingPlayers :
         /\ entities[e].dir = <<-707, 707>>
         /\ entities[e].pos = VScale(entities[e].dir, 2 * dt * MOVESPEED)

\* the entities that carry the marker of the counter text
Marked == Query({"PlayerSpawnCountText"})

C13_Marked ==
    /\ phase = "update" =>
        /\ Cardinality(Marked) = 1
        /\ Marked \subseteq Query({"Text"})
        /\ \A sys \in DOMAIN commands : \A i \in DOMAIN commands[sys] :
              "PlayerSpawnCountText" \notin commands[sys][i].e.comps
    /\ phase = "aborted" => frame = 0 /\ ever_ran = {}

\* C13: in both variants and roles: in every state after startup exactly
\* one entity carries PlayerSpawnCountText, it has a Text, and no command
\* queued by an Update system spawns or inserts the marker; the process
\* stops only during startup, never in a frame, so the single_mut() of
\* update_input_count_text has never failed; and no step after startup
\* changes which entity carries the marker.
C13_OneCounterText ==
    /\ []C13_Marked
    /\ [][phase = "update" => phase' = "update" /\ Marked' = Marked]_vars

C13_Witness ==
    /\ phase = "update"
    /\ cli = "Client"
    /\ frame = MaxFrames
    /\ "update_input_count_text" \in ran
    /\ ~count_changed
    /\ inputs_count = 2
    /\ stats.keypresses = 1
    /\ Cardinality(Decoys) = 2
    /\ Cardinality(Marked) = 1

====
